---- MODULE Spec2Model ----
(***************************************************************************)
(* Foreign-key constraint-violation detection over prolly maps             *)
(* (go/libraries/doltcore/merge/violations_fk_prolly.go), the violation    *)
(* metadata's PrettyPrint, and the dolt_remote stored procedure            *)
(* (go/libraries/doltcore/sqle/dprocedures/dolt_remote.go).                *)
(*                                                                         *)
(* Tuples are sequences of fields; the field 0 is the NULL field.  Field   *)
(* offsets j are 0-based as in the Go source: GetField(t, j) is t[j + 1].  *)
(***************************************************************************)
EXTENDS Integers, Sequences, FiniteSets, TLC

VARIABLES
    detector,        \* "parent" | "child": which detector the invocation runs
    layout,          \* schema and index of the diffed table (tblSch, idxSch)
    fk,              \* the foreign key of the invocation (index into FkCatalog)
    prevFk,          \* the foreign key of the previous invocation, 0 when none
    pre,             \* pre-merge primary map of the diffed table
    post,            \* post-merge primary map of the diffed table
    other,           \* post-merge primary map of the other table of the relation
    childArts,       \* artifact index of the input child table (postChild.Table)
    editor,          \* artEditor: the ledger's accumulated artifact set
    diffs,           \* the changes prolly.DiffMaps delivers, in key order
    cursor,          \* position of the next change to deliver (1-based)
    foundViolation,  \* the detector's local foundViolation
    delivered,       \* the kind of the change delivered last, "none" before the first
    flushCount,      \* number of artEditor.Flush calls of the invocation
    recs,            \* the ReplaceConstraintViolation calls of the invocation
    pc,              \* "idle" | "diff" | "done" | "panicked", "pp" | "rendered" |
                     \* "decoded", "pk" | "keyed", "rcall" | "rrefs" | "rdone"
    ret,             \* what the detector returned: table, violationFound, err
    runs,            \* detector invocations so far
    meta,            \* PrettyPrint: the FkCVMeta value
    text,            \* PrettyPrint: the rendered text
    decoded,         \* PrettyPrint: the text decoded as JSON
    pkArgs,          \* makePartialKey: the arguments of the call
    pkRes,           \* makePartialKey: the (partialKey, hadNulls) it returned
    dbName,          \* dolt_remote: ctx.GetCurrentDatabase()
    dbLoaded,        \* dolt_remote: whether dSess.GetDbData finds the database
    args,            \* dolt_remote: the arguments of the call
    remotes,         \* dolt_remote: the remotes of the saved repo state
    refs,            \* dolt_remote: the remote-tracking refs of the database
    remotes0,        \* dolt_remote: the saved remotes when the call was made
    refs0,           \* dolt_remote: the remote-tracking refs when the call was made
    target,          \* removeRemote: the remote looked up (remote)
    todo,            \* removeRemote: the refs read and not yet visited by the loop
    faults,          \* dolt_remote: the collaborator calls that have failed
    result           \* dolt_remote: the (status, error) doDoltRemote returned

detVars == <<detector, layout, fk, prevFk, pre, post, other, childArts, editor,
             diffs, cursor, foundViolation, delivered, flushCount, recs, ret, runs>>

ppVars == <<meta, text, decoded>>

pkVars == <<pkArgs, pkRes>>

rmVars == <<dbName, dbLoaded, args, remotes, refs, remotes0, refs0, target, todo,
            faults, result>>

\* What the detectors leave alone.
auxVars == <<ppVars, pkVars, rmVars>>

vars == <<detVars, pc, ppVars, pkVars, rmVars>>

----------------------------------------------------------------------------
(* Bounds *)

MaxKey == 1
MaxVal == 1
MaxRuns == 2

----------------------------------------------------------------------------
(* Values, rows and schemas *)

NULL == 0

Keys == 1..MaxKey

Vals == NULL..MaxVal

\* The three schema/index shapes of the diffed table: a keyed table indexed on
\* a value column, a keyed table indexed on its primary key column, and a
\* keyless table (no primary key columns) indexed on its second value column.
LKeyed == [keyless |-> FALSE, pkCols |-> <<"id">>,
           nonPkCols |-> <<"c1", "c2">>, idxTags |-> <<"c1">>]

LPk == [keyless |-> FALSE, pkCols |-> <<"id">>,
        nonPkCols |-> <<"c1", "c2">>, idxTags |-> <<"id">>]

LKeyless == [keyless |-> TRUE, pkCols |-> <<>>,
             nonPkCols |-> <<"c2", "c1">>, idxTags |-> <<"c1">>]

Layouts == {LKeyed, LPk, LKeyless}

\* schema.IsKeyless(tblSch)
IsKeyless(L) == L.keyless

\* _, ok := cols.TagToIdx[tag]
HasTag(cols, tag) == \E i \in 1..Len(cols) : cols[i] = tag

\* j, _ := cols.TagToIdx[tag]: the 0-based position, 0 for a missing tag
TagToIdx(cols, tag) ==
    IF HasTag(cols, tag)
    THEN (CHOOSE i \in 1..Len(cols) : cols[i] = tag) - 1
    ELSE 0

\* The foreign keys of the child table and their violation metadata.
FkCatalog == <<
    [Columns |-> <<"c1">>, ForeignKey |-> "fk1", Index |-> "c1_idx",
     OnDelete |-> "RESTRICT", OnUpdate |-> "RESTRICT",
     ReferencedColumns |-> <<"c1">>, ReferencedIndex |-> "p1_idx",
     ReferencedTable |-> "parent1", Table |-> "child"],
    [Columns |-> <<"c1">>, ForeignKey |-> "fk2", Index |-> "c1_idx",
     OnDelete |-> "CASCADE", OnUpdate |-> "RESTRICT",
     ReferencedColumns |-> <<"c1">>, ReferencedIndex |-> "p2_idx",
     ReferencedTable |-> "parent2", Table |-> "child"] >>

FKs == DOMAIN FkCatalog

\* len(foreignKey.TableColumns)
NumFkCols(f) == Len(FkCatalog[f].Columns)

\* jsonData: the serialized metadata of foreign key f, an opaque payload
JsonData(f) == f

\* json.Unmarshal(info, &m) of a payload
JsonUnmarshal(d) == FkCatalog[d]

TheirRootIsh == "theirRootIsh"

ArtifactTypeForeignKeyViol == "fk_viol"

TblName == "child"

\* Logical rows: c1 is the foreign-key value column, c2 a second column.
KeyedRows == [c1 : Vals, c2 : {1}]

KeylessRows == [c1 : Vals, c2 : {NULL, 1}]

\* Primary maps: a function from the present keys to their rows.
MapsOf(rows) == UNION {[D -> rows] : D \in SUBSET Keys}

Restrict(f, D) == [k \in D |-> f[k]]

\* The key tuple of a row: its primary key, or the hash id of a keyless row.
KeyTuple(k) == <<k>>

\* The value tuple of a row: the non-key columns in schema order; a keyless
\* row carries its cardinality in the first slot.
ValTuple(L, row) ==
    (IF IsKeyless(L) THEN <<1>> ELSE <<>>)
        \o [i \in 1..Len(L.nonPkCols) |-> row[L.nonPkCols[i]]]

ColVal(k, row, tag) == IF tag = "id" THEN k ELSE row[tag]

\* A secondary index entry: the indexed columns, then the primary key.
IdxKey(L, k, row) ==
    [i \in 1..Len(L.idxTags) |-> ColVal(k, row, L.idxTags[i])] \o KeyTuple(k)

\* durable.ProllyMapFromIndex(t.IndexData): the keys of the secondary index
IndexData(L, rows) == {IdxKey(L, k, rows[k]) : k \in DOMAIN rows}

----------------------------------------------------------------------------
(* Tuples *)

GetField(t, j) == IF j + 1 \in DOMAIN t THEN t[j + 1] ELSE NULL

FieldIsNull(t, j) == GetField(t, j) = NULL

\* kb.PutRaw(i, field)
PutRaw(kb, i, f) == IF i + 1 \in DOMAIN kb THEN [kb EXCEPT ![i + 1] = f] ELSE kb

\* val.NewTupleBuilder(partialDesc): n unset fields
NewTupleBuilder(n) == [i \in 1..n |-> NULL]

TupleLess(a, b) ==
    \E i \in 1..Len(a) :
        /\ i <= Len(b)
        /\ a[i] < b[i]
        /\ \A h \in 1..(i - 1) : a[h] = b[h]

RECURSIVE SortTuples(_)
SortTuples(S) ==
    IF S = {} THEN <<>>
    ELSE LET m == CHOOSE x \in S : \A y \in S \ {x} : TupleLess(x, y)
         IN <<m>> \o SortTuples(S \ {m})

----------------------------------------------------------------------------
(* Partial keys *)

NilTuple == <<>>

\* One iteration of the loop over idxSch.IndexedColumnTags(), from offset i.
RECURSIVE makePartialKeyLoop(_, _, _, _, _)
makePartialKeyLoop(i, kb, L, k, v) ==
    IF i >= Len(L.idxTags)
    THEN [key |-> kb, hadNulls |-> FALSE]
    ELSE LET tag == L.idxTags[i + 1] IN
         IF HasTag(L.pkCols, tag)
         THEN LET j == TagToIdx(L.pkCols, tag) IN
              IF FieldIsNull(k, j)
              THEN [key |-> NilTuple, hadNulls |-> TRUE]
              ELSE makePartialKeyLoop(i + 1, PutRaw(kb, i, GetField(k, j)), L, k, v)
         ELSE LET j == TagToIdx(L.nonPkCols, tag) IN
              IF FieldIsNull(v, j)
              THEN [key |-> NilTuple, hadNulls |-> TRUE]
              ELSE IF IsKeyless(L)
                   THEN makePartialKeyLoop(i + 1, PutRaw(kb, i, GetField(v, j + 1)), L, k, v)
                   ELSE makePartialKeyLoop(i + 1, PutRaw(kb, i, GetField(v, j)), L, k, v)

makePartialKey(n, L, k, v) == makePartialKeyLoop(0, NewTupleBuilder(n), L, k, v)

\* The entries of an index whose first fields equal the partial key
\* (creation.NewPrefixItr / IterRange over prolly.PrefixRange).
PrefixMatches(idx, partialKey) ==
    {e \in idx : \A i \in 1..Len(partialKey) : i <= Len(e) /\ e[i] = partialKey[i]}

----------------------------------------------------------------------------
(* Errors *)

NoErr == [type |-> "nil"]

StorageErr == [type |-> "storage"]

ErrMergeArtifactCollision(key, existingInfo, newInfo) ==
    [type |-> "ErrMergeArtifactCollision", Key |-> key,
     ExistingInfo |-> existingInfo, NewInfo |-> newInfo]

RECURSIVE Join(_, _)
Join(elems, sep) ==
    IF Len(elems) = 0 THEN <<>>
    ELSE IF Len(elems) = 1 THEN <<elems[1]>>
    ELSE <<elems[1], sep>> \o Join(Tail(elems), sep)

\* fmt.Sprintf("%s (%s)", m.ReferencedTable, strings.Join(m.ReferencedColumns, ", "))
getRefTblAndCols(m) ==
    <<m.ReferencedTable, " (">> \o Join(m.ReferencedColumns, ", ") \o <<")">>

\* kd.Format(key): the key's fields rendered by the primary-key descriptor
Format(key) == <<"(">> \o key \o <<")">>

\* A variant that names the new foreign key twice.
handleFkMultipleViolForRowErrNewOnly(err, tblName) ==
    IF err.type = "ErrMergeArtifactCollision"
    THEN [type |-> "ErrMultipleViolationsForRow",
          pk |-> Format(err.Key),
          table |-> tblName,
          existing |-> getRefTblAndCols(JsonUnmarshal(err.NewInfo)),
          new |-> getRefTblAndCols(JsonUnmarshal(err.NewInfo))]
    ELSE err

handleFkMultipleViolForRowErr(err, tblName) ==
    IF err.type = "ErrMergeArtifactCollision"
    THEN [type |-> "ErrMultipleViolationsForRow",
          pk |-> Format(err.Key),
          table |-> tblName,
          existing |-> getRefTblAndCols(JsonUnmarshal(err.ExistingInfo)),
          new |-> getRefTblAndCols(JsonUnmarshal(err.NewInfo))]
    ELSE err

----------------------------------------------------------------------------
(* Artifact ledger *)

Artifact(k, h, t, m) ==
    [key |-> k, hash |-> h, artType |-> t, vinfo |-> m.VInfo, value |-> m.Value]

\* editor.ReplaceConstraintViolation(ctx, k, theirRootIsh, artType, meta):
\* insert when the row key bears no artifact, fail when it bears one with
\* different metadata, leave the ledger alone when the metadata is the same.
ReplaceConstraintViolation(ed, k, h, t, m) ==
    LET existing == {a \in ed : a.key = k} IN
    IF \E a \in existing : a.vinfo # m.VInfo
    THEN LET a == CHOOSE a \in existing : a.vinfo # m.VInfo
         IN [ed |-> ed, err |-> ErrMergeArtifactCollision(k, a.vinfo, m.VInfo)]
    ELSE IF existing # {}
    THEN [ed |-> ed, err |-> NoErr]
    ELSE [ed |-> ed \cup {Artifact(k, h, t, m)}, err |-> NoErr]

\* artEditor.Flush(ctx): the accumulated edits as a new artifact index
Flush(ed) == ed

NoTable == [isNil |-> TRUE, artifacts |-> {}]

\* postChild.Table.SetArtifacts(ctx, artIdx)
SetArtifacts(artM) == [isNil |-> FALSE, artifacts |-> artM]

----------------------------------------------------------------------------
(* Violation recording *)

\* A variant that records the violation and reports none found.
createCVIfNoPartialKeyMatchesUnreported(k, v, partialKey, idx, ed, jsonData, theirRootIsh, tblName) ==
    IF PrefixMatches(idx, partialKey) # {}
    THEN [found |-> FALSE, err |-> NoErr, ed |-> ed, recs |-> <<>>]
    ELSE LET m == [VInfo |-> jsonData, Value |-> v]
             r == ReplaceConstraintViolation(ed, k, theirRootIsh, ArtifactTypeForeignKeyViol, m)
         IN IF r.err # NoErr
            THEN [found |-> FALSE, err |-> handleFkMultipleViolForRowErr(r.err, tblName),
                  ed |-> r.ed, recs |-> <<[key |-> k, value |-> v]>>]
            ELSE [found |-> FALSE, err |-> NoErr,
                  ed |-> r.ed, recs |-> <<[key |-> k, value |-> v]>>]

createCVIfNoPartialKeyMatches(k, v, partialKey, idx, ed, jsonData, theirRootIsh, tblName) ==
    IF PrefixMatches(idx, partialKey) # {}
    THEN [found |-> FALSE, err |-> NoErr, ed |-> ed, recs |-> <<>>]
    ELSE LET m == [VInfo |-> jsonData, Value |-> v]
             r == ReplaceConstraintViolation(ed, k, theirRootIsh, ArtifactTypeForeignKeyViol, m)
         IN IF r.err # NoErr
            THEN [found |-> FALSE, err |-> handleFkMultipleViolForRowErr(r.err, tblName),
                  ed |-> r.ed, recs |-> <<[key |-> k, value |-> v]>>]
            ELSE [found |-> TRUE, err |-> NoErr,
                  ed |-> r.ed, recs |-> <<[key |-> k, value |-> v]>>]

\* primaryIdx.Get(ctx, key, cb): the value tuple stored under key, nil if none
PrimaryGet(L, rows, key) ==
    IF Len(key) = 1 /\ key[1] \in DOMAIN rows
    THEN ValTuple(L, rows[key[1]])
    ELSE NilTuple

\* A variant that takes the leading fields of the index key for the primary
\* key and records the index key in place of the row's value.
RECURSIVE createCVsLoopLeadingFields(_, _, _, _, _, _, _, _, _)
createCVsLoopLeadingFields(entries, created, ed, done, pkCount, primaryIdx, jsonData, theirRootIsh, tblName) ==
    IF entries = <<>>
    THEN [found |-> created, err |-> NoErr, ed |-> ed, recs |-> done]
    ELSE LET k == Head(entries)
             primaryIdxKey == [i \in 1..pkCount |-> GetField(k, i - 1)]
             value == k
             m == [VInfo |-> jsonData, Value |-> value]
             r == ReplaceConstraintViolation(ed, primaryIdxKey, theirRootIsh,
                                             ArtifactTypeForeignKeyViol, m)
             now == Append(done, [key |-> primaryIdxKey, value |-> value])
         IN IF r.err # NoErr
            THEN [found |-> FALSE, err |-> handleFkMultipleViolForRowErr(r.err, tblName),
                  ed |-> r.ed, recs |-> now]
            ELSE createCVsLoopLeadingFields(Tail(entries), TRUE, r.ed, now, pkCount, primaryIdx,
                                            jsonData, theirRootIsh, tblName)

\* The loop of createCVsForPartialKeyMatches over the matching entries.
RECURSIVE createCVsLoop(_, _, _, _, _, _, _, _, _)
createCVsLoop(entries, created, ed, done, pkCount, primaryIdx, jsonData, theirRootIsh, tblName) ==
    IF entries = <<>>
    THEN [found |-> created, err |-> NoErr, ed |-> ed, recs |-> done]
    ELSE LET k == Head(entries)
             o == Len(k) - pkCount
             primaryIdxKey == [i \in 1..pkCount |-> GetField(k, o + i - 1)]
             value == PrimaryGet(LKeyed, primaryIdx, primaryIdxKey)
             m == [VInfo |-> jsonData, Value |-> value]
             r == ReplaceConstraintViolation(ed, primaryIdxKey, theirRootIsh,
                                             ArtifactTypeForeignKeyViol, m)
             now == Append(done, [key |-> primaryIdxKey, value |-> value])
         IN IF r.err # NoErr
            THEN [found |-> FALSE, err |-> handleFkMultipleViolForRowErr(r.err, tblName),
                  ed |-> r.ed, recs |-> now]
            ELSE createCVsLoop(Tail(entries), TRUE, r.ed, now, pkCount, primaryIdx,
                               jsonData, theirRootIsh, tblName)

createCVsForPartialKeyMatches(partialKey, ed, pkCount, primaryIdx, secondaryIdx, jsonData, theirRootIsh, tblName) ==
    createCVsLoop(SortTuples(PrefixMatches(secondaryIdx, partialKey)), FALSE, ed, <<>>,
                  pkCount, primaryIdx, jsonData, theirRootIsh, tblName)

----------------------------------------------------------------------------
(* Diff *)

AddedDiff == "AddedDiff"

ModifiedDiff == "ModifiedDiff"

RemovedDiff == "RemovedDiff"

\* The change prolly.DiffMaps reports for key k, which differs between the maps.
DiffOf(L, from, to, k) ==
    IF k \notin DOMAIN from
    THEN [Type |-> AddedDiff, Key |-> KeyTuple(k), From |-> NilTuple,
          To |-> ValTuple(L, to[k])]
    ELSE IF k \notin DOMAIN to
    THEN [Type |-> RemovedDiff, Key |-> KeyTuple(k), From |-> ValTuple(L, from[k]),
          To |-> NilTuple]
    ELSE [Type |-> ModifiedDiff, Key |-> KeyTuple(k), From |-> ValTuple(L, from[k]),
          To |-> ValTuple(L, to[k])]

Changed(from, to, k) ==
    \/ k \in DOMAIN from /\ k \notin DOMAIN to
    \/ k \notin DOMAIN from /\ k \in DOMAIN to
    \/ k \in DOMAIN from /\ k \in DOMAIN to /\ from[k] # to[k]

\* The greatest key of the two maps, 0 when both are empty.
LastKey(from, to) ==
    LET D == DOMAIN from \cup DOMAIN to IN
    IF D = {} THEN 0 ELSE CHOOSE m \in D : \A x \in D : x <= m

RECURSIVE DiffFrom(_, _, _, _)
DiffFrom(L, from, to, k) ==
    IF k > LastKey(from, to) THEN <<>>
    ELSE (IF Changed(from, to, k) THEN <<DiffOf(L, from, to, k)>> ELSE <<>>)
             \o DiffFrom(L, from, to, k + 1)

\* prolly.DiffMaps(ctx, from, to, cb): the changes, ascending by key
DiffMaps(L, from, to) == DiffFrom(L, from, to, 1)

----------------------------------------------------------------------------
(* The detectors' diff callbacks *)

Skip(ed) == [found |-> FALSE, err |-> NoErr, ed |-> ed, recs |-> <<>>]

\* panic("unhandled diff type")
UnhandledDiffType == [type |-> "panic", msg |-> "unhandled diff type"]

Panic(ed) == [found |-> FALSE, err |-> UnhandledDiffType, ed |-> ed, recs |-> <<>>]

\* A variant that ignores every change it does not examine.
ParentDiffCallbackIgnoresUnknown(diff, ed, f, L, postParentIndexData, childPriIdx, childScndryIdx) ==
    IF diff.Type \in {RemovedDiff, ModifiedDiff}
    THEN LET pk == makePartialKey(NumFkCols(f), L, diff.Key, diff.From) IN
         IF pk.hadNulls
         THEN Skip(ed)
         ELSE IF PrefixMatches(postParentIndexData, pk.key) # {}
         THEN Skip(ed)
         ELSE createCVsForPartialKeyMatches(pk.key, ed, Len(LKeyed.pkCols), childPriIdx,
                                            childScndryIdx, JsonData(f), TheirRootIsh, TblName)
    ELSE Skip(ed)

\* The callback of prollyParentFkConstraintViolations for one change.
ParentDiffCallback(diff, ed, f, L, postParentIndexData, childPriIdx, childScndryIdx) ==
    IF diff.Type \in {RemovedDiff, ModifiedDiff}
    THEN LET pk == makePartialKey(NumFkCols(f), L, diff.Key, diff.From) IN
         IF pk.hadNulls
         THEN Skip(ed)
         ELSE IF PrefixMatches(postParentIndexData, pk.key) # {}
         THEN Skip(ed)
         ELSE createCVsForPartialKeyMatches(pk.key, ed, Len(LKeyed.pkCols), childPriIdx,
                                            childScndryIdx, JsonData(f), TheirRootIsh, TblName)
    ELSE IF diff.Type = AddedDiff
    THEN Skip(ed)
    ELSE Panic(ed)

\* The callback of prollyChildFkConstraintViolations for one change.
ChildDiffCallback(diff, ed, f, L, parentScndryIdx) ==
    IF diff.Type \in {AddedDiff, ModifiedDiff}
    THEN LET pk == makePartialKey(NumFkCols(f), L, diff.Key, diff.To) IN
         IF pk.hadNulls
         THEN Skip(ed)
         ELSE createCVIfNoPartialKeyMatches(diff.Key, diff.To, pk.key, parentScndryIdx, ed,
                                            JsonData(f), TheirRootIsh, TblName)
    ELSE IF diff.Type = RemovedDiff
    THEN Skip(ed)
    ELSE Panic(ed)

\* A variant that takes the metadata of the other foreign key for the
\* changes of every row but the first.
CallbackMetaPerChange(diff) ==
    LET f == IF diff.Key = KeyTuple(1) THEN fk ELSE 3 - fk IN
    IF detector = "parent"
    THEN ParentDiffCallback(diff, editor, f, layout, IndexData(layout, post),
                            other, IndexData(LKeyed, other))
    ELSE ChildDiffCallback(diff, editor, f, layout, IndexData(LKeyed, other))

Callback(diff) ==
    IF detector = "parent"
    THEN ParentDiffCallback(diff, editor, fk, layout, IndexData(layout, post),
                            other, IndexData(LKeyed, other))
    ELSE ChildDiffCallback(diff, editor, fk, layout, IndexData(LKeyed, other))

----------------------------------------------------------------------------
(* Detector invocations *)

NoRet == [table |-> NoTable, found |-> FALSE, err |-> NoErr]

\* A variant that hands the partial result back with the error.
AbortWithPartial(err) ==
    [table |-> SetArtifacts(editor), found |-> foundViolation, err |-> err]

\* return nil, false, err
Abort(err) == [table |-> NoTable, found |-> FALSE, err |-> err]

\* return updated, foundViolation, nil
Return(updated, found) == [table |-> updated, found |-> found, err |-> NoErr]

\* Keyless rows are keyed by a hash of their contents: a key has one contents
\* in both maps, and different keys have different contents.
KeylessContents ==
    {c \in [Keys -> KeylessRows] : \A a, b \in Keys : a # b => c[a] # c[b]}

MapPairs(L) ==
    IF IsKeyless(L)
    THEN {<<Restrict(c, D1), Restrict(c, D2)>> :
              c \in KeylessContents, D1 \in SUBSET Keys, D2 \in SUBSET Keys}
    ELSE MapsOf(KeyedRows) \X MapsOf(KeyedRows)

\* A variant whose ledger editor starts empty instead of from the input
\* table's artifact index.
EnterFreshEditor(d, L, f, p, q, o, arts) ==
    /\ detector' = d
    /\ layout' = L
    /\ fk' = f
    /\ pre' = p
    /\ post' = q
    /\ other' = o
    /\ childArts' = arts
    /\ editor' = {}
    /\ diffs' = DiffMaps(L, p, q)
    /\ cursor' = 1
    /\ foundViolation' = FALSE
    /\ delivered' = "none"
    /\ flushCount' = 0
    /\ recs' = <<>>
    /\ ret' = NoRet
    /\ pc' = "diff"

\* The detector's prologue: the ledger editor is created from the input child
\* table's artifact index and the diff of the two maps starts.
Enter(d, L, f, p, q, o, arts) ==
    /\ detector' = d
    /\ layout' = L
    /\ fk' = f
    /\ pre' = p
    /\ post' = q
    /\ other' = o
    /\ childArts' = arts
    /\ editor' = arts
    /\ diffs' = DiffMaps(L, p, q)
    /\ cursor' = 1
    /\ foundViolation' = FALSE
    /\ delivered' = "none"
    /\ flushCount' = 0
    /\ recs' = <<>>
    /\ ret' = NoRet
    /\ pc' = "diff"

\* The provenance hash of an earlier merge.
PriorRootIsh == "priorRootIsh"

\* The artifact index of the child table before the merge: empty, or holding
\* the violation of a foreign key an earlier merge recorded for the first row.
PriorArtifacts ==
    {{}} \cup
    {{Artifact(KeyTuple(1), PriorRootIsh, ArtifactTypeForeignKeyViol,
               [VInfo |-> JsonData(f), Value |-> ValTuple(LKeyed, [c1 |-> 1, c2 |-> 1])])} :
         f \in FKs}

\* The first invocation of a merge, on the child table as the merge found it.
Begin ==
    /\ pc = "idle"
    /\ \E d \in {"parent", "child"}, L \in Layouts, f \in FKs :
        \E pq \in MapPairs(L), o \in MapsOf(KeyedRows), arts \in PriorArtifacts :
            Enter(d, L, f, pq[1], pq[2], o, arts)
    /\ prevFk' = 0
    /\ runs' = 1
    /\ UNCHANGED auxVars

\* A further invocation over the same maps, for the same or another foreign
\* key, on the table the previous invocation returned.
Rerun ==
    /\ pc = "done"
    /\ ret.err = NoErr
    /\ runs < MaxRuns
    /\ \E f \in FKs :
            Enter(detector, layout, f, pre, post, other, ret.table.artifacts)
    /\ prevFk' = fk
    /\ runs' = runs + 1
    /\ UNCHANGED auxVars

\* A variant that flushes the ledger after every change.
DeliverFlushing(diff) ==
    LET r == Callback(diff) IN
        /\ delivered' = diff.Type
        /\ editor' = r.ed
        /\ recs' = recs \o r.recs
        /\ IF r.err = UnhandledDiffType
           THEN /\ pc' = "panicked"
                /\ UNCHANGED <<ret, cursor, foundViolation>>
           ELSE IF r.err # NoErr
           THEN /\ ret' = Abort(r.err)
                /\ pc' = "done"
                /\ UNCHANGED <<cursor, foundViolation>>
           ELSE /\ foundViolation' = (foundViolation \/ r.found)
                /\ cursor' = cursor + 1
                /\ ret' = Return(SetArtifacts(Flush(r.ed)), foundViolation')
                /\ pc' = IF cursor' > Len(diffs) THEN "done" ELSE pc

\* The detector's callback runs on a change: a panic unwinds the detector, an
\* error ends the diff and the invocation, otherwise the diff goes on.
Deliver(diff) ==
    LET r == Callback(diff) IN
        /\ delivered' = diff.Type
        /\ editor' = r.ed
        /\ recs' = recs \o r.recs
        /\ IF r.err = UnhandledDiffType
           THEN /\ pc' = "panicked"
                /\ UNCHANGED <<ret, cursor, foundViolation>>
           ELSE IF r.err # NoErr
           THEN /\ ret' = Abort(r.err)
                /\ pc' = "done"
                /\ UNCHANGED <<cursor, foundViolation>>
           ELSE /\ foundViolation' = (foundViolation \/ r.found)
                /\ cursor' = cursor + 1
                /\ UNCHANGED <<ret, pc>>

\* DiffMaps delivers the next change to the detector's callback.
DiffStep ==
    /\ pc = "diff"
    /\ cursor <= Len(diffs)
    /\ Deliver(diffs[cursor])
    /\ UNCHANGED <<detector, layout, fk, prevFk, pre, post, other, childArts,
                   diffs, flushCount, runs>>
    /\ UNCHANGED auxVars

\* A kind of change the detectors do not know.
UnknownDiff == "UnknownDiff"

\* The diff delivers the next change with a kind outside Added, Removed and
\* Modified.
UnknownDiffStep ==
    /\ pc = "diff"
    /\ cursor <= Len(diffs)
    /\ Deliver([diffs[cursor] EXCEPT !.Type = UnknownDiff])
    /\ UNCHANGED <<detector, layout, fk, prevFk, pre, post, other, childArts,
                   diffs, flushCount, runs>>
    /\ UNCHANGED auxVars

\* A variant that flushes a ledger holding only the rows recorded in this pass.
FlushAndReturnRecordedOnly ==
    /\ pc = "diff"
    /\ cursor > Len(diffs)
    /\ flushCount' = flushCount + 1
    /\ ret' = Return(SetArtifacts(Flush({a \in editor : \E i \in DOMAIN recs : recs[i].key = a.key})),
                     foundViolation)
    /\ pc' = "done"
    /\ UNCHANGED <<detector, layout, fk, prevFk, pre, post, other, childArts,
                   editor, diffs, cursor, foundViolation, delivered, recs, runs>>
    /\ UNCHANGED auxVars

\* A variant that sets only the edits of this pass on the returned table.
FlushAndReturnOnlyNew ==
    /\ pc = "diff"
    /\ cursor > Len(diffs)
    /\ flushCount' = flushCount + 1
    /\ ret' = Return(SetArtifacts(Flush(editor \ childArts)), foundViolation)
    /\ pc' = "done"
    /\ UNCHANGED <<detector, layout, fk, prevFk, pre, post, other, childArts,
                   editor, diffs, cursor, foundViolation, delivered, recs, runs>>
    /\ UNCHANGED auxVars

\* The diff ended (io.EOF): the ledger is flushed, the artifact index is set
\* on the child table and the detector returns.
FlushAndReturn ==
    /\ pc = "diff"
    /\ cursor > Len(diffs)
    /\ flushCount' = flushCount + 1
    /\ ret' = Return(SetArtifacts(Flush(editor)), foundViolation)
    /\ pc' = "done"
    /\ UNCHANGED <<detector, layout, fk, prevFk, pre, post, other, childArts,
                   editor, diffs, cursor, foundViolation, delivered, recs, runs>>
    /\ UNCHANGED auxVars

\* A storage error (reading the artifacts, traversing the diff, scanning an
\* index, looking a row up, flushing) ends the invocation.
StorageFault ==
    /\ pc = "diff"
    /\ ret' = Abort(StorageErr)
    /\ pc' = "done"
    /\ UNCHANGED <<detector, layout, fk, prevFk, pre, post, other, childArts,
                   editor, diffs, cursor, foundViolation, delivered, flushCount, recs,
                   runs>>
    /\ UNCHANGED auxVars

\* No detector has been invoked.
DetIdle ==
    /\ detector = "child"
    /\ layout = LKeyed
    /\ fk = 1
    /\ prevFk = 0
    /\ pre = <<>>
    /\ post = <<>>
    /\ other = <<>>
    /\ childArts = {}
    /\ editor = {}
    /\ diffs = <<>>
    /\ cursor = 1
    /\ foundViolation = FALSE
    /\ delivered = "none"
    /\ flushCount = 0
    /\ recs = <<>>
    /\ ret = NoRet
    /\ runs = 0

\* No metadata value is being rendered.
PPIdle ==
    /\ meta = <<>>
    /\ text = <<>>
    /\ decoded = <<>>

\* No partial key is being built.
PKIdle ==
    /\ pkArgs = <<>>
    /\ pkRes = <<>>

\* dolt_remote has not been called.
RmIdle ==
    /\ dbName = <<>>
    /\ dbLoaded = FALSE
    /\ args = <<>>
    /\ remotes = <<>>
    /\ refs = {}
    /\ remotes0 = <<>>
    /\ refs0 = {}
    /\ target = <<>>
    /\ todo = {}
    /\ faults = {}
    /\ result = <<>>

Init ==
    /\ DetIdle
    /\ PPIdle
    /\ PKIdle
    /\ RmIdle
    /\ pc = "idle"

Next ==
    \/ Begin
    \/ Rerun
    \/ DiffStep
    \/ UnknownDiffStep
    \/ FlushAndReturn
    \/ StorageFault

Spec == Init /\ [][Next]_vars

----------------------------------------------------------------------------
(* Parent-side passes over a parent table of several rows *)

MaxParents == 2

ParentKeys == 1..MaxParents

ParentMaps == UNION {[D -> KeyedRows] : D \in SUBSET ParentKeys}

\* A single parent-side pass over a keyed parent table, on a child table
\* without artifacts.
BeginParents ==
    /\ pc = "idle"
    /\ \E f \in FKs, p \in ParentMaps, q \in ParentMaps, o \in MapsOf(KeyedRows) :
            Enter("parent", LKeyed, f, p, q, o, {})
    /\ prevFk' = 0
    /\ runs' = 1
    /\ UNCHANGED auxVars

NextParents ==
    \/ BeginParents
    \/ DiffStep
    \/ UnknownDiffStep
    \/ FlushAndReturn
    \/ StorageFault

SpecParents == Init /\ [][NextParents]_vars

----------------------------------------------------------------------------
(* Detection properties *)

\* The foreign-key columns of a row: the first columns of the index, as
\* many as the foreign key has.
FkVals(L, k, row) == [i \in 1..NumFkCols(fk) |-> ColVal(k, row, L.idxTags[i])]

AllNonNull(t) == \A i \in 1..Len(t) : t[i] # NULL

HasEntry(idx, t) == \E e \in idx : \A i \in 1..Len(t) : e[i] = t[i]

ArtsFor(arts, k) == {a \in arts : a.key = KeyTuple(k)}

Succeeded == pc = "done" /\ ret.err = NoErr

\* A child row the merge added or modified whose foreign key is fully
\* non-NULL and has no parent after the merge.
DanglingChange(k) ==
    /\ k \in DOMAIN post
    /\ Changed(pre, post, k)
    /\ AllNonNull(FkVals(layout, k, post[k]))
    /\ ~HasEntry(IndexData(LKeyed, other), FkVals(layout, k, post[k]))

\* A parent row the merge removed or modified whose old foreign-key columns
\* are fully non-NULL and match no parent after the merge.
OrphaningChange(k) ==
    /\ k \in DOMAIN pre
    /\ Changed(pre, post, k)
    /\ AllNonNull(FkVals(layout, k, pre[k]))
    /\ ~HasEntry(IndexData(layout, post), FkVals(layout, k, pre[k]))

\* C1: after a successful child-side pass every added or modified child row
\* with a fully non-NULL, unmatched foreign key has exactly one artifact keyed
\* by its primary key.
C1_ChildPassFlagsEveryDanglingRow ==
    (Succeeded /\ detector = "child") =>
        \A k \in Keys :
            DanglingChange(k) => Cardinality(ArtsFor(ret.table.artifacts, k)) = 1

\* C2: after a successful parent-side pass every child row whose index entry
\* has the old partial key of an orphaning parent change as prefix has an
\* artifact, and no child row with a NULL foreign-key column gets one from
\* the pass.
C2_ParentPassFlagsEveryOrphan ==
    (Succeeded /\ detector = "parent") =>
        /\ \A k \in Keys : OrphaningChange(k) =>
               \A c \in DOMAIN other :
                   FkVals(LKeyed, c, other[c]) = FkVals(layout, k, pre[k])
                       => ArtsFor(ret.table.artifacts, c) # {}
        /\ \A c \in DOMAIN other :
               ~AllNonNull(FkVals(LKeyed, c, other[c]))
                   => ArtsFor(ret.table.artifacts \ childArts, c) = {}

\* C3: a successful child-side pass adds artifacts for exactly the added or
\* modified rows with a fully non-NULL, unmatched foreign key: none for a
\* removed row, a row with a NULL foreign-key column or a satisfied row.
C3_ChildPassFlagsOnlyDanglingRows ==
    (Succeeded /\ detector = "child") =>
        \A k \in Keys :
            /\ ArtsFor(ret.table.artifacts \ childArts, k) # {} => DanglingChange(k)
            /\ DanglingChange(k) => ArtsFor(ret.table.artifacts, k) # {}

----------------------------------------------------------------------------
(* Ledger properties *)

\* The error a conflict between the artifact a and the invocation's foreign
\* key on row key k is reported as.
MultipleViolationsErr(k, a) ==
    [type |-> "ErrMultipleViolationsForRow",
     pk |-> <<"(">> \o k \o <<")">>,
     table |-> "child",
     existing |-> <<FkCatalog[a.vinfo].ReferencedTable, " (">>
                      \o Join(FkCatalog[a.vinfo].ReferencedColumns, ", ") \o <<")">>,
     new |-> <<FkCatalog[fk].ReferencedTable, " (">>
                 \o Join(FkCatalog[fk].ReferencedColumns, ", ") \o <<")">>]

\* C4: an invocation repeated with the same foreign key, maps, hash and
\* metadata on the table the previous one returned raises no conflict and
\* returns the artifact index it was given.
C4_RerunIsIdempotent ==
    (pc = "done" /\ runs >= 2 /\ fk = prevFk) =>
        /\ ret.err \in {NoErr, StorageErr}
        /\ ret.err = NoErr => ret.table.artifacts = childArts

C4_Witness ==
    /\ Succeeded
    /\ runs >= 2
    /\ fk = prevFk
    /\ recs # <<>>
    /\ childArts # {}

\* C5: recording a violation for a row key that bears an artifact of another
\* foreign key ends the pass with the multiple-violations error naming the
\* formatted primary key, the table and both referenced tables and columns.
C5_ConflictIsReported ==
    \A i \in DOMAIN recs : \A a \in childArts :
        (a.key = recs[i].key /\ a.vinfo # JsonData(fk)) =>
            /\ pc = "done"
            /\ ret.err = MultipleViolationsErr(recs[i].key, a)

C5_Witness ==
    /\ pc = "done"
    /\ ret.err.type = "ErrMultipleViolationsForRow"
    /\ \E a \in childArts : a.vinfo # JsonData(fk)

\* C6: in the input artifact index and in every flushed one a row key bears
\* records of one metadata value only, and a flushed index keeps every record
\* of the index the invocation started from.
C6_OneMetadataPerRowKey ==
    /\ \A a, b \in childArts : a.key = b.key => a.vinfo = b.vinfo
    /\ \A a, b \in ret.table.artifacts : a.key = b.key => a.vinfo = b.vinfo
    /\ Succeeded => childArts \subseteq ret.table.artifacts

C6_Witness ==
    /\ pc = "done"
    /\ runs >= 2
    /\ fk # prevFk
    /\ recs # <<>>
    /\ \E a \in childArts : a.key = recs[Len(recs)].key
    /\ editor = childArts

C8_FoundIffViolationRecorded ==
    Succeeded =>
        /\ ret.found <=> recs # <<>>
        /\ ~ret.found => ret.table.artifacts = childArts

C8_Witness ==
    /\ Succeeded
    /\ ret.found
    /\ ret.table.artifacts # childArts

----------------------------------------------------------------------------
(* Further detection properties *)

\* C11: a parent-side pass records an artifact only for a child row whose
\* foreign-key columns equal the old foreign-key columns of a removed or
\* modified parent row that are fully non-NULL and match no entry of the
\* post-merge parent index.
C11_ParentPassFlagsOnlyOrphans ==
    detector = "parent" =>
        \A i \in DOMAIN recs :
            \E c \in DOMAIN other :
                /\ recs[i].key = KeyTuple(c)
                /\ \E k \in Keys :
                       /\ OrphaningChange(k)
                       /\ FkVals(LKeyed, c, other[c]) = FkVals(layout, k, pre[k])

\* C14: the ledger editor starts as the input child table's artifact index,
\* nothing is flushed while changes are delivered, a pass that returns a table
\* has flushed exactly once, after the last change, and the table it returns
\* carries the flushed ledger.
C14_FlushOnceAfterTheDiff ==
    /\ (pc = "diff" /\ delivered = "none") => (editor = childArts /\ recs = <<>>)
    /\ pc \in {"diff", "panicked"} => flushCount = 0
    /\ flushCount <= 1
    /\ flushCount = 1 =>
           /\ pc = "done"
           /\ cursor > Len(diffs)
           /\ ret.table = SetArtifacts(Flush(editor))
    /\ Succeeded => flushCount = 1
    /\ ~ret.table.isNil => flushCount = 1

C14_Witness ==
    /\ Succeeded
    /\ flushCount = 1
    /\ Len(diffs) > 0
    /\ recs # <<>>
    /\ ret.table.artifacts # childArts
    /\ ret.table = SetArtifacts(Flush(editor))

\* C15: a change of a kind other than Added, Removed and Modified makes the
\* detector panic: the change is not passed over, nothing is recorded for it,
\* the ledger is not flushed and nothing is returned; no change is delivered
\* after it.
C15_UnknownKindIsFatal ==
    /\ delivered \notin {"none", AddedDiff, RemovedDiff, ModifiedDiff} =>
           /\ pc = "panicked"
           /\ cursor <= Len(diffs)
           /\ flushCount = 0
           /\ ret = NoRet
    /\ pc = "panicked" => delivered \notin {"none", AddedDiff, RemovedDiff, ModifiedDiff}

C15_Witness ==
    /\ pc = "panicked"
    /\ detector = "parent"
    /\ delivered = UnknownDiff
    /\ childArts # {}
    /\ \E k \in Keys : OrphaningChange(k)

\* C16: an artifact a parent-side pass adds is keyed by the last fields of a
\* matching child index entry, the child's primary key, and holds the value
\* the post-merge child primary map stores under that key; an artifact a
\* child-side pass adds is keyed by the changed row's key and holds its new
\* value; both hold the invocation's hash, the foreign-key violation kind and
\* the invocation's metadata.
C16_ArtifactContents ==
    \A a \in editor \ childArts :
        /\ a.hash = TheirRootIsh
        /\ a.artType = ArtifactTypeForeignKeyViol
        /\ a.vinfo = JsonData(fk)
        /\ detector = "parent" =>
               \E e \in IndexData(LKeyed, other) :
                   /\ a.key = SubSeq(e, Len(e) - Len(LKeyed.pkCols) + 1, Len(e))
                   /\ a.key[1] \in DOMAIN other
                   /\ a.value = ValTuple(LKeyed, other[a.key[1]])
        /\ detector = "child" =>
               \E i \in DOMAIN diffs :
                   /\ a.key = diffs[i].Key
                   /\ a.value = diffs[i].To
                   /\ a.key[1] \in DOMAIN post
                   /\ a.value = ValTuple(layout, post[a.key[1]])

C16_Witness ==
    /\ Succeeded
    /\ detector = "parent"
    /\ editor # childArts
    /\ \E a \in ret.table.artifacts \ childArts : a.value = ValTuple(LKeyed, other[a.key[1]])

\* C17: a pass leaves the pre-merge map, the post-merge rows of the parent
\* and of the child and the indexes built from them as they were, and a
\* successful pass returns every artifact of the input artifact index whose
\* row key it did not record.
C17_OnlyTheArtifactIndexChanges ==
    [][pc = "diff" =>
          /\ pre' = pre
          /\ post' = post
          /\ other' = other
          /\ layout' = layout
          /\ childArts' = childArts
          /\ (pc' = "done" /\ ret'.err = NoErr) =>
                 \A a \in childArts :
                     (\A i \in DOMAIN recs' : recs'[i].key # a.key)
                         => a \in ret'.table.artifacts]_vars

C17_Witness ==
    /\ Succeeded
    /\ Len(diffs) > 0
    /\ \E a \in childArts :
           /\ \A i \in DOMAIN recs : recs[i].key # a.key
           /\ a \in ret.table.artifacts

\* The child row c hangs on an old partial key that two or more removed or
\* modified parent rows share and no parent holds after the merge.
SharedOrphan(c) ==
    \E k1, k2 \in DOMAIN pre :
        /\ k1 # k2
        /\ OrphaningChange(k1)
        /\ OrphaningChange(k2)
        /\ FkVals(layout, k1, pre[k1]) = FkVals(layout, k2, pre[k2])
        /\ FkVals(LKeyed, c, other[c]) = FkVals(layout, k1, pre[k1])

\* C18: in a parent-side pass on an artifact index without artifacts of
\* another foreign key no conflict is raised, however many parent rows share
\* an old partial key, and after the pass every child row hanging on a shared
\* old partial key has exactly one artifact.
C18_SharedPartialKeyRecordsOnce ==
    (detector = "parent" /\ \A a \in childArts : a.vinfo = JsonData(fk)) =>
        /\ ret.err.type # "ErrMultipleViolationsForRow"
        /\ Succeeded =>
               \A c \in DOMAIN other :
                   SharedOrphan(c) => Cardinality(ArtsFor(ret.table.artifacts, c)) = 1

C18_Witness ==
    /\ Succeeded
    /\ detector = "parent"
    /\ childArts = {}
    /\ \E c \in DOMAIN other : SharedOrphan(c)
    /\ \E i, j \in DOMAIN recs : i < j /\ recs[i].key = recs[j].key
    /\ Cardinality(ret.table.artifacts) = 1

----------------------------------------------------------------------------
(* makePartialKey as a function of its arguments *)

MaxField == 2

Fields == NULL..MaxField

\* A keyed table whose index has a column more than the foreign key may use.
LWide == [keyless |-> FALSE, pkCols |-> <<"id">>,
          nonPkCols |-> <<"c1", "c2">>, idxTags |-> <<"c1", "c2">>]

PKLayouts == Layouts \cup {LWide}

\* The key tuples of a table: a non-NULL primary key, or a keyless row's hash id.
PKKeyTuples == {<<f>> : f \in Fields \ {NULL}}

\* The value tuples of a table: a field for each non-key column, after the
\* cardinality when the table is keyless.
PKValTuples(L) ==
    {(IF IsKeyless(L) THEN <<1>> ELSE <<>>) \o t : t \in [1..Len(L.nonPkCols) -> Fields]}

\* The calls of makePartialKey: the foreign key has n columns, the first n of
\* the index.
PKCalls ==
    UNION {[n : 1..Len(L.idxTags), L : {L}, k : PKKeyTuples, v : PKValTuples(L)] :
               L \in PKLayouts}

InitPK ==
    /\ DetIdle
    /\ PPIdle
    /\ RmIdle
    /\ pc = "pk"
    /\ pkArgs \in PKCalls
    /\ pkRes = <<>>

\* partialKey, hadNulls := makePartialKey(partialKB, index, schema, k, v, pool)
CallMakePartialKey ==
    /\ pc = "pk"
    /\ pkRes' = makePartialKey(pkArgs.n, pkArgs.L, pkArgs.k, pkArgs.v)
    /\ pc' = "keyed"
    /\ UNCHANGED pkArgs
    /\ UNCHANGED <<detVars, ppVars, rmVars>>

NextPK ==
    \/ CallMakePartialKey

SpecPK == InitPK /\ [][NextPK]_vars

\* The field of a row that holds the column: a primary-key column is in the
\* key tuple at its position, another column in the value tuple at its
\* position, one further when the table is keyless.
ColumnField(L, k, v, tag) ==
    IF \E i \in 1..Len(L.pkCols) : L.pkCols[i] = tag
    THEN k[CHOOSE i \in 1..Len(L.pkCols) : L.pkCols[i] = tag]
    ELSE v[(CHOOSE i \in 1..Len(L.nonPkCols) : L.nonPkCols[i] = tag)
               + (IF L.keyless THEN 1 ELSE 0)]

\* C12: for a foreign key on value columns of a keyless table makePartialKey
\* reports hadNulls = true exactly when one of the fields it reads, the
\* column's position shifted by one, is NULL, and otherwise returns those
\* fields.
C12_KeylessNullTestReadsTheSameField ==
    (pc = "keyed" /\ pkArgs.L.keyless /\ Len(pkArgs.L.idxTags) = pkArgs.n) =>
        LET src == [i \in 1..pkArgs.n |->
                        ColumnField(pkArgs.L, pkArgs.k, pkArgs.v, pkArgs.L.idxTags[i])]
        IN /\ pkRes.hadNulls <=> (\E i \in 1..pkArgs.n : src[i] = NULL)
           /\ ~pkRes.hadNulls => pkRes.key = src

\* C13: for a keyed table makePartialKey returns the fields of the first n
\* columns of the index, n the number of columns of the foreign key, and
\* reports hadNulls = true exactly when one of those fields is NULL, whatever
\* the later columns of the index hold.
C13_PartialKeyIsTheFirstNColumns ==
    (pc = "keyed" /\ ~pkArgs.L.keyless) =>
        LET src == [i \in 1..pkArgs.n |->
                        ColumnField(pkArgs.L, pkArgs.k, pkArgs.v, pkArgs.L.idxTags[i])]
        IN /\ pkRes.hadNulls <=> (\E i \in 1..pkArgs.n : src[i] = NULL)
           /\ ~pkRes.hadNulls => pkRes.key = src

----------------------------------------------------------------------------
(* FkCVMeta.PrettyPrint: texts are sequences of characters *)

MaxCols == 2

Quote == "\""

KColumns == <<"C", "o", "l", "u", "m", "n", "s">>

KForeignKey == <<"F", "o", "r", "e", "i", "g", "n", "K", "e", "y">>

KIndex == <<"I", "n", "d", "e", "x">>

KOnDelete == <<"O", "n", "D", "e", "l", "e", "t", "e">>

KOnUpdate == <<"O", "n", "U", "p", "d", "a", "t", "e">>

KReferencedColumns == <<"R", "e", "f", "e", "r", "e", "n", "c", "e", "d", "C", "o", "l", "u", "m", "n", "s">>

KReferencedIndex == <<"R", "e", "f", "e", "r", "e", "n", "c", "e", "d", "I", "n", "d", "e", "x">>

KReferencedTable == <<"R", "e", "f", "e", "r", "e", "n", "c", "e", "d", "T", "a", "b", "l", "e">>

KTable == <<"T", "a", "b", "l", "e">>

\* The names a metadata field may hold.
Names == {<<"a">>, <<"b">>}

NameLists == UNION {[1..n -> Names] : n \in 1..MaxCols}

\* type FkCVMeta struct
FkCVMetas ==
    [Columns : NameLists, ForeignKey : Names, Index : Names, OnDelete : Names,
     OnUpdate : Names, ReferencedColumns : NameLists, ReferencedIndex : Names,
     ReferencedTable : Names, Table : Names]

\* strings.Join(elems, sep) over texts
RECURSIVE JoinText(_, _)
JoinText(elems, sep) ==
    IF Len(elems) = 0 THEN <<>>
    ELSE IF Len(elems) = 1 THEN elems[1]
    ELSE elems[1] \o sep \o JoinText(Tail(elems), sep)

Quoted(t) == <<Quote>> \o t \o <<Quote>>

\* The separator PrettyPrint joins the elements of an array with: ', '
ArraySep == <<"'", ",", " ", "'">>

\* `"Key": ["%s"]` with the joined elements of the array
ArrayMember(key, elems) ==
    Quoted(key) \o <<":", " ", "[">> \o Quoted(JoinText(elems, ArraySep)) \o <<"]">>

\* `"Key": "%s"`
StringMember(key, v) == Quoted(key) \o <<":", " ">> \o Quoted(v)

MemberSep == <<",", " ">>

PrettyPrint(m) ==
    <<"{">>
        \o ArrayMember(KColumns, m.Columns) \o MemberSep
        \o StringMember(KForeignKey, m.ForeignKey) \o MemberSep
        \o StringMember(KIndex, m.Index) \o MemberSep
        \o StringMember(KOnDelete, m.OnDelete) \o MemberSep
        \o StringMember(KOnUpdate, m.OnUpdate) \o MemberSep
        \o ArrayMember(KReferencedColumns, m.ReferencedColumns) \o MemberSep
        \o StringMember(KReferencedIndex, m.ReferencedIndex) \o MemberSep
        \o StringMember(KReferencedTable, m.ReferencedTable) \o MemberSep
        \o StringMember(KTable, m.Table)
        \o <<"}">>

----------------------------------------------------------------------------
(* json.Unmarshal of a text into an FkCVMeta *)

ParseFail == [ok |-> FALSE]

At(s, i) == IF i \in DOMAIN s THEN s[i] ELSE "EOF"

RECURSIVE SkipWs(_, _)
SkipWs(s, i) == IF At(s, i) = " " THEN SkipWs(s, i + 1) ELSE i

\* The position of the quote that closes a string whose contents start at i,
\* 0 when the string is not closed.
RECURSIVE ClosingQuote(_, _)
ClosingQuote(s, i) ==
    IF i > Len(s) THEN 0
    ELSE IF s[i] = Quote THEN i
    ELSE IF s[i] = "\\" THEN ClosingQuote(s, i + 2)
    ELSE ClosingQuote(s, i + 1)

ParseString(s, i) ==
    IF At(s, i) # Quote THEN ParseFail
    ELSE LET e == ClosingQuote(s, i + 1) IN
         IF e = 0 THEN ParseFail
         ELSE [ok |-> TRUE, kind |-> "string", val |-> SubSeq(s, i + 1, e - 1),
               next |-> e + 1]

RECURSIVE ParseElems(_, _, _)
ParseElems(s, i, acc) ==
    LET e == ParseString(s, i) IN
    IF ~e.ok THEN ParseFail
    ELSE LET j == SkipWs(s, e.next) IN
         IF At(s, j) = ","
         THEN ParseElems(s, SkipWs(s, j + 1), Append(acc, e.val))
         ELSE IF At(s, j) = "]"
         THEN [ok |-> TRUE, kind |-> "array", val |-> Append(acc, e.val), next |-> j + 1]
         ELSE ParseFail

ParseArray(s, i) ==
    LET j == SkipWs(s, i + 1) IN
    IF At(s, j) = "]"
    THEN [ok |-> TRUE, kind |-> "array", val |-> <<>>, next |-> j + 1]
    ELSE ParseElems(s, j, <<>>)

ParseValue(s, i) ==
    IF At(s, i) = Quote THEN ParseString(s, i)
    ELSE IF At(s, i) = "[" THEN ParseArray(s, i)
    ELSE ParseFail

\* The members of an object from position i on, in the order of the text.
RECURSIVE ParseMembers(_, _, _)
ParseMembers(s, i, acc) ==
    LET k == ParseString(s, i) IN
    IF ~k.ok THEN ParseFail
    ELSE LET c == SkipWs(s, k.next) IN
         IF At(s, c) # ":" THEN ParseFail
         ELSE LET v == ParseValue(s, SkipWs(s, c + 1)) IN
              IF ~v.ok THEN ParseFail
              ELSE LET j == SkipWs(s, v.next)
                       now == Append(acc, [key |-> k.val, kind |-> v.kind, val |-> v.val])
                   IN IF At(s, j) = ","
                      THEN ParseMembers(s, SkipWs(s, j + 1), now)
                      ELSE IF At(s, j) = "}" /\ SkipWs(s, j + 1) > Len(s)
                      THEN [ok |-> TRUE, members |-> now]
                      ELSE ParseFail

ParseObject(s) ==
    LET i == SkipWs(s, 1) IN
    IF At(s, i) # "{" THEN ParseFail
    ELSE LET j == SkipWs(s, i + 1) IN
         IF At(s, j) = "}" /\ SkipWs(s, j + 1) > Len(s)
         THEN [ok |-> TRUE, members |-> <<>>]
         ELSE ParseMembers(s, j, <<>>)

HasMember(ms, key) == \E i \in DOMAIN ms : ms[i].key = key

\* The last member of the key: a repeated key overrides the earlier one.
Member(ms, key) ==
    ms[CHOOSE i \in DOMAIN ms :
           ms[i].key = key /\ \A h \in DOMAIN ms : ms[h].key = key => h <= i]

\* A struct field of the kind takes the key's member; the zero value if none.
FieldValue(ms, key) == IF HasMember(ms, key) THEN Member(ms, key).val ELSE <<>>

KindsMatch(ms) ==
    \A i \in DOMAIN ms :
        /\ ms[i].key \in {KColumns, KReferencedColumns} => ms[i].kind = "array"
        /\ ms[i].key \in {KForeignKey, KIndex, KOnDelete, KOnUpdate, KReferencedIndex,
                           KReferencedTable, KTable} => ms[i].kind = "string"

\* json.Unmarshal(text, &m) with m an FkCVMeta
UnmarshalFkCVMeta(s) ==
    LET ob == ParseObject(s) IN
    IF ~ob.ok \/ ~KindsMatch(ob.members) THEN ParseFail
    ELSE [ok |-> TRUE,
          val |-> [Columns |-> FieldValue(ob.members, KColumns),
                   ForeignKey |-> FieldValue(ob.members, KForeignKey),
                   Index |-> FieldValue(ob.members, KIndex),
                   OnDelete |-> FieldValue(ob.members, KOnDelete),
                   OnUpdate |-> FieldValue(ob.members, KOnUpdate),
                   ReferencedColumns |-> FieldValue(ob.members, KReferencedColumns),
                   ReferencedIndex |-> FieldValue(ob.members, KReferencedIndex),
                   ReferencedTable |-> FieldValue(ob.members, KReferencedTable),
                   Table |-> FieldValue(ob.members, KTable)]]

----------------------------------------------------------------------------
(* Rendering and decoding a metadata value *)

InitPP ==
    /\ DetIdle
    /\ PKIdle
    /\ RmIdle
    /\ pc = "pp"
    /\ meta \in FkCVMetas
    /\ text = <<>>
    /\ decoded = ParseFail

\* m.PrettyPrint()
Render ==
    /\ pc = "pp"
    /\ text' = PrettyPrint(meta)
    /\ pc' = "rendered"
    /\ UNCHANGED <<meta, decoded>>
    /\ UNCHANGED <<detVars, pkVars, rmVars>>

\* json.Unmarshal of the rendered text
Decode ==
    /\ pc = "rendered"
    /\ decoded' = UnmarshalFkCVMeta(text)
    /\ pc' = "decoded"
    /\ UNCHANGED <<meta, text>>
    /\ UNCHANGED <<detVars, pkVars, rmVars>>

NextPP ==
    \/ Render
    \/ Decode

SpecPP == InitPP /\ [][NextPP]_vars

\* The text the metadata has as a JSON object with the keys in the fixed
\* order and each array element in double quotes, separated by ", ".
RECURSIVE QuotedElems(_)
QuotedElems(elems) ==
    IF Len(elems) = 0 THEN <<>>
    ELSE IF Len(elems) = 1 THEN Quoted(elems[1])
    ELSE Quoted(elems[1]) \o <<",", " ">> \o QuotedElems(Tail(elems))

JsonArrayMember(key, elems) ==
    Quoted(key) \o <<":", " ", "[">> \o QuotedElems(elems) \o <<"]">>

JsonText(m) ==
    <<"{">>
        \o JsonArrayMember(KColumns, m.Columns) \o <<",", " ">>
        \o StringMember(KForeignKey, m.ForeignKey) \o <<",", " ">>
        \o StringMember(KIndex, m.Index) \o <<",", " ">>
        \o StringMember(KOnDelete, m.OnDelete) \o <<",", " ">>
        \o StringMember(KOnUpdate, m.OnUpdate) \o <<",", " ">>
        \o JsonArrayMember(KReferencedColumns, m.ReferencedColumns) \o <<",", " ">>
        \o StringMember(KReferencedIndex, m.ReferencedIndex) \o <<",", " ">>
        \o StringMember(KReferencedTable, m.ReferencedTable) \o <<",", " ">>
        \o StringMember(KTable, m.Table)
        \o <<"}">>

\* C9: decoding the text PrettyPrint renders yields the metadata's nine
\* fields again.
C9_PrettyPrintRoundTrips ==
    pc = "decoded" => (decoded.ok /\ decoded.val = meta)

\* C10: PrettyPrint renders the keys in the fixed order and every array as
\* its elements in double quotes, separated by a comma and a space.
C10_PrettyPrintRendersJsonArrays ==
    pc \in {"rendered", "decoded"} => text = JsonText(meta)

----------------------------------------------------------------------------
(* The dolt_remote stored procedure: words are sequences of characters *)

MaxBranches == 2

WAdd == <<"a", "d", "d">>

WRemove == <<"r", "e", "m", "o", "v", "e">>

WRm == <<"r", "m">>

WList == <<"l", "i", "s", "t">>

\* An option the argument parser does not know.
WUnknownFlag == <<"-", "-", "x">>

\* The names of remotes.
RemoteNames == {<<"o">>, <<"u">>}

Branches == 1..MaxBranches

\* ref.RemoteRef: the remote-tracking ref of a branch of a remote
RemoteRefs == [remote : RemoteNames, branch : Branches]

\* env.NewRemote(name, url, params, nil)
NewRemote(name, url) == [Name |-> name, Url |-> url]

\* RepoState.Remotes: each remote under its own name
RemoteMaps ==
    UNION {{[n \in D |-> NewRemote(n, <<"h">>)]} : D \in SUBSET RemoteNames}

FirstArgs == {WAdd, WRemove, WRm, WList, WUnknownFlag}

NameArgs == {<<"o">>, <<" ", "o", " ">>, <<"u">>}

UrlArgs == {<<"h">>, WUnknownFlag}

\* The argument lists of the calls.
ArgLists ==
    {<<>>}
        \cup {<<c>> : c \in FirstArgs}
        \cup {<<c, n>> : c \in FirstArgs, n \in NameArgs}
        \cup {<<c, n, u>> : c \in FirstArgs, n \in NameArgs, u \in UrlArgs}
        \cup {<<c, n, u, u>> : c \in FirstArgs, n \in NameArgs, u \in UrlArgs}

\* strings.TrimSpace(w)
RECURSIVE TrimSpace(_)
TrimSpace(w) ==
    IF Len(w) = 0 THEN w
    ELSE IF Head(w) = " " THEN TrimSpace(Tail(w))
    ELSE IF w[Len(w)] = " " THEN TrimSpace(SubSeq(w, 1, Len(w) - 1))
    ELSE w

\* fmt.Errorf(msg)
Errorf(msg) == [type |-> "error", msg |-> msg]

\* cli.CreateRemoteArgParser().Parse(args): an unknown option is an error,
\* the other words are the positional arguments.
Parse(as) ==
    IF \E i \in 1..Len(as) : Len(as[i]) > 0 /\ Head(as[i]) = "-"
    THEN [err |-> Errorf("error: unknown option"), positional |-> <<>>]
    ELSE [err |-> NoErr, positional |-> as]

\* apr.NArg()
NArg(apr) == Len(apr.positional)

\* apr.Arg(i)
Arg(apr, i) == apr.positional[i + 1]

\* A variant that reports success whatever the subcommand returned.
doDoltRemoteTailIgnoringErr(err) == [status |-> 0, err |-> NoErr]

\* The end of doDoltRemote: if err != nil { return 1, err }; return 0, nil
doDoltRemoteTail(err) ==
    IF err # NoErr THEN [status |-> 1, err |-> err] ELSE [status |-> 0, err |-> NoErr]

\* doDoltRemote returns without a change to the saved remotes or the refs.
ReturnsWith(res, failed) ==
    /\ result' = res
    /\ faults' = faults \cup failed
    /\ pc' = "rdone"
    /\ UNCHANGED <<remotes, refs, target, todo>>

\* addRemote(apr, dSess)
addRemote(apr) ==
    IF NArg(apr) # 3
    THEN ReturnsWith(doDoltRemoteTail(Errorf("error: invalid argument")), {})
    ELSE LET remoteName == TrimSpace(Arg(apr, 1))
             remoteUrl == Arg(apr, 2)
             r == NewRemote(remoteName, remoteUrl)
         IN \E failed \in {{}, {"GetAbsRemoteUrl"}, {"parseRemoteArgs"},
                           {"LoadRepoState"}, {"Save"}} :
                IF failed # {}
                THEN ReturnsWith(doDoltRemoteTail(Errorf("add failed")), failed)
                ELSE /\ remotes' = [n \in DOMAIN remotes \cup {remoteName} |->
                                        IF n = remoteName THEN r ELSE remotes[n]]
                     /\ result' = doDoltRemoteTail(NoErr)
                     /\ pc' = "rdone"
                     /\ UNCHANGED <<refs, target, todo, faults>>

\* A variant that takes the remote out of the saved repo state before it
\* reads and deletes the refs.
removeRemoteStartSavingFirst(apr) ==
    IF NArg(apr) # 2
    THEN ReturnsWith(doDoltRemoteTail(Errorf("error: invalid argument")), {})
    ELSE LET old == TrimSpace(Arg(apr, 1)) IN
         \E failed \in {{}, {"LoadRepoState"}, {"GetRemoteRefs"}} :
             IF failed = {"LoadRepoState"}
             THEN ReturnsWith(doDoltRemoteTail(Errorf("load failed")), failed)
             ELSE IF old \notin DOMAIN remotes
             THEN ReturnsWith(doDoltRemoteTail(Errorf("error: unknown remote")), {})
             ELSE /\ remotes' = [n \in DOMAIN remotes \ {old} |-> remotes[n]]
                  /\ IF failed = {"GetRemoteRefs"}
                     THEN /\ result' = doDoltRemoteTail(Errorf("error: failed to read from db"))
                          /\ faults' = faults \cup failed
                          /\ pc' = "rdone"
                          /\ UNCHANGED <<refs, target, todo>>
                     ELSE /\ target' = remotes[old]
                          /\ todo' = refs
                          /\ pc' = "rrefs"
                          /\ UNCHANGED <<refs, faults, result>>

\* removeRemote up to its loop: the argument count, the repo state, the
\* remote of the name and the remote-tracking refs of the database.
removeRemoteStart(apr) ==
    IF NArg(apr) # 2
    THEN ReturnsWith(doDoltRemoteTail(Errorf("error: invalid argument")), {})
    ELSE LET old == TrimSpace(Arg(apr, 1)) IN
         \E failed \in {{}, {"LoadRepoState"}, {"GetRemoteRefs"}} :
             IF failed = {"LoadRepoState"}
             THEN ReturnsWith(doDoltRemoteTail(Errorf("load failed")), failed)
             ELSE IF old \notin DOMAIN remotes
             THEN ReturnsWith(doDoltRemoteTail(Errorf("error: unknown remote")), {})
             ELSE IF failed = {"GetRemoteRefs"}
             THEN ReturnsWith(doDoltRemoteTail(Errorf("error: failed to read from db")), failed)
             ELSE /\ target' = remotes[old]
                  /\ todo' = refs
                  /\ pc' = "rrefs"
                  /\ UNCHANGED <<remotes, refs, faults, result>>

\* doDoltRemote up to the return of addRemote or the loop of removeRemote.
CallDoltRemote ==
    /\ pc = "rcall"
    /\ LET apr == Parse(args) IN
       IF Len(dbName) = 0
       THEN ReturnsWith([status |-> 1, err |-> Errorf("Empty database name.")], {})
       ELSE IF ~dbLoaded
       THEN ReturnsWith([status |-> 1, err |-> Errorf("Could not load database")], {})
       ELSE IF apr.err # NoErr
       THEN ReturnsWith([status |-> 1, err |-> apr.err], {})
       ELSE IF NArg(apr) = 0
       THEN ReturnsWith([status |-> 1, err |-> Errorf("error: invalid argument, use 'dolt_remotes' system table to list remotes")], {})
       ELSE IF Arg(apr, 0) = WAdd
       THEN addRemote(apr)
       ELSE IF Arg(apr, 0) \in {WRemove, WRm}
       THEN removeRemoteStart(apr)
       ELSE ReturnsWith(doDoltRemoteTail(Errorf("error: invalid argument")), {})
    /\ UNCHANGED <<dbName, dbLoaded, args, remotes0, refs0>>
    /\ UNCHANGED <<detVars, ppVars, pkVars>>

\* One round of the loop of removeRemote: a ref of the remote is deleted,
\* which may fail and end the call; a ref of another remote is passed over.
RemoveRef ==
    /\ pc = "rrefs"
    /\ \E rr \in todo :
        IF rr.remote = target.Name
        THEN \E ok \in BOOLEAN :
                 IF ok
                 THEN /\ refs' = refs \ {rr}
                      /\ todo' = todo \ {rr}
                      /\ UNCHANGED <<pc, result, faults>>
                 ELSE /\ result' = doDoltRemoteTail(Errorf("failed to delete remote tracking ref"))
                      /\ faults' = faults \cup {"DeleteBranch"}
                      /\ pc' = "rdone"
                      /\ UNCHANGED <<refs, todo>>
        ELSE /\ todo' = todo \ {rr}
             /\ UNCHANGED <<refs, pc, result, faults>>
    /\ UNCHANGED <<dbName, dbLoaded, args, remotes, remotes0, refs0, target>>
    /\ UNCHANGED <<detVars, ppVars, pkVars>>

\* After the loop: the remote leaves the repo state, the repo state is saved
\* and doDoltRemote returns.
RemoveSave ==
    /\ pc = "rrefs"
    /\ todo = {}
    /\ \E ok \in BOOLEAN :
        IF ok
        THEN /\ remotes' = [n \in DOMAIN remotes \ {target.Name} |-> remotes[n]]
             /\ result' = doDoltRemoteTail(NoErr)
             /\ UNCHANGED faults
        ELSE /\ result' = doDoltRemoteTail(Errorf("save failed"))
             /\ faults' = faults \cup {"Save"}
             /\ UNCHANGED remotes
    /\ pc' = "rdone"
    /\ UNCHANGED <<dbName, dbLoaded, args, refs, remotes0, refs0, target, todo>>
    /\ UNCHANGED <<detVars, ppVars, pkVars>>

InitRemote ==
    /\ DetIdle
    /\ PPIdle
    /\ PKIdle
    /\ pc = "rcall"
    /\ dbName \in {<<>>, <<"d">>}
    /\ dbLoaded \in BOOLEAN
    /\ args \in ArgLists
    /\ remotes \in RemoteMaps
    /\ refs \in SUBSET RemoteRefs
    /\ remotes0 = remotes
    /\ refs0 = refs
    /\ target = <<>>
    /\ todo = {}
    /\ faults = {}
    /\ result = <<>>

NextRemote ==
    \/ CallDoltRemote
    \/ RemoveRef
    \/ RemoveSave

SpecRemote == InitRemote /\ [][NextRemote]_vars

----------------------------------------------------------------------------
(* dolt_remote properties *)

\* The call reached removeRemote with a name argument.
RemoveCalled ==
    /\ Len(dbName) > 0
    /\ dbLoaded
    /\ \A i \in 1..Len(args) : Head(args[i]) # "-"
    /\ Len(args) = 2
    /\ args[1] \in {WRemove, WRm}

\* The name after the surrounding spaces are taken off.
Trimmed(w) ==
    IF w = <<" ", "o", " ">> THEN <<"o">> ELSE w

Except(rs, name) == [n \in DOMAIN rs \ {name} |-> rs[n]]

\* C19: the saved remotes lose the remote only once no remote-tracking ref of
\* it is left; a successful removeRemote leaves no ref of the remote and the
\* saved remotes without the name; with an unknown name, a failed read of the
\* refs or a failed deletion of a ref an error is returned and the saved
\* remotes are the ones before the call.
C19_RemoveRemoteDeletesRefsFirst ==
    RemoveCalled =>
        LET name == Trimmed(args[2]) IN
        /\ remotes # remotes0 => \A rr \in refs : rr.remote # name
        /\ (pc = "rdone" /\ result.err = NoErr) =>
               /\ \A rr \in refs : rr.remote # name
               /\ name \in DOMAIN remotes0
               /\ remotes = Except(remotes0, name)
               /\ \A rr \in refs0 : rr.remote # name => rr \in refs
        /\ (pc = "rdone" /\ (name \notin DOMAIN remotes0
                                \/ "GetRemoteRefs" \in faults
                                \/ "DeleteBranch" \in faults)) =>
               /\ result.err # NoErr
               /\ remotes = remotes0

C19_Witness ==
    /\ RemoveCalled
    /\ pc = "rdone"
    /\ result.err = NoErr
    /\ args[2] = <<" ", "o", " ">>
    /\ Cardinality({rr \in refs0 : rr.remote = <<"o">>}) >= 2
    /\ refs # {}
    /\ DOMAIN remotes = {<<"u">>}

\* The call is one of those doDoltRemote refuses: no current database, a
\* database that does not load, arguments that do not parse, no positional
\* argument, a first argument that names no subcommand, or a wrong number of
\* arguments for the subcommand.
Refused ==
    \/ Len(dbName) = 0
    \/ ~dbLoaded
    \/ \E i \in 1..Len(args) : Head(args[i]) = "-"
    \/ Len(args) = 0
    \/ args[1] \notin {WAdd, WRemove, WRm}
    \/ args[1] = WAdd /\ Len(args) # 3
    \/ args[1] \in {WRemove, WRm} /\ Len(args) # 2

\* C20: doDoltRemote returns status 0 without an error or status 1 with one;
\* status 0 only for an add that put the remote into the saved remotes or a
\* remove or rm that took it out; a refused call, and every call returning
\* status 1, leaves the saved remotes as they were.
C20_StatusReportsAddOrRemove ==
    pc = "rdone" =>
        /\ result.status \in {0, 1}
        /\ result.status = 0 <=> result.err = NoErr
        /\ Refused => result.status = 1
        /\ result.status = 1 => remotes = remotes0
        /\ result.status = 0 =>
               \/ /\ args[1] = WAdd
                  /\ Trimmed(args[2]) \in DOMAIN remotes
                  /\ remotes[Trimmed(args[2])] = [Name |-> Trimmed(args[2]), Url |-> args[3]]
                  /\ Except(remotes, Trimmed(args[2])) = Except(remotes0, Trimmed(args[2]))
                  /\ refs = refs0
               \/ /\ args[1] \in {WRemove, WRm}
                  /\ Trimmed(args[2]) \in DOMAIN remotes0
                  /\ remotes = Except(remotes0, Trimmed(args[2]))

C20_Witness ==
    /\ pc = "rdone"
    /\ result = [status |-> 0, err |-> NoErr]
    /\ args[1] = WAdd
    /\ args[2] = <<" ", "o", " ">>
    /\ <<"o">> \notin DOMAIN remotes0
    /\ <<"o">> \in DOMAIN remotes

====
